---- MODULE Spec2Model ----
(***************************************************************************)
(* The trading engine of src/trader.py (class AdvancedTrader) together     *)
(* with the two places that drive it from outside: the chat commands of    *)
(* src/bot.py (/stop, /restart) and the shutdown handler of src/main.py.   *)
(*                                                                         *)
(* Scheduling.  Every coroutine of the trader runs on one asyncio event   *)
(* loop.  The broker calls (self.api.request) are synchronous and the      *)
(* scraper's get_sentiment()/get_sentiment_trend() contain no await, so    *)
(* the only points where a trading loop hands control to another           *)
(* coroutine are its asyncio.sleep() calls.  A loop is "yielded" when it   *)
(* stands at such a sleep (or has not been scheduled yet); a coroutine     *)
(* step is taken only when every other loop is yielded.  The broker, the   *)
(* calendar and the operating-system signal are not coroutines and act at  *)
(* any time.                                                               *)
(*                                                                         *)
(* Numbers.  Confidence and the risk fractions are kept in percent,        *)
(* profit_factor in hundredths, balances in whole account-currency units.  *)
(***************************************************************************)
EXTENDS Integers, Sequences, FiniteSets, TLC

(* ---------------------------- bounds ---------------------------------- *)
NumInstruments == 2      \* how many of the seven configured instruments are modelled
MaxLoops == 2            \* trading-loop tasks that can exist at once
MaxTrades == 2           \* trades recorded in one run of the full model
MaxDay == 1              \* calendar days after the first one
MaxOther == 5            \* account positions outside the modelled instruments
DailyRunTrades == 52     \* trades recorded in one run of the daily-cap model
MaxCorrelated == 6       \* correlated instruments counted when tabulating the penalty

(* ------------------------ program constants --------------------------- *)
InstrumentList ==
  <<"EUR_USD", "GBP_USD", "USD_JPY", "USD_CHF", "AUD_USD", "USD_CAD", "NZD_USD">>
Instruments == {InstrumentList[k] : k \in 1..NumInstruments}
NoInstrument == "-"
risk_per_trade == 1          \* percent
max_daily_risk == 5          \* percent
max_positions == 5
DailyTradeCap == 50
TradeHistoryMaxLen == 1000
ConfidenceGate == 70         \* percent; a trade needs confidence > 0.7
MinUnits == 1000
UnitsCap == 50000

Loops == 1..MaxLoops
Regimes == {"NORMAL", "VOLATILE", "TRENDING"}

(* Replies of the broker to an account-summary request: <<>> stands for a  *)
(* failed request (get_balance returns None), <<b>> for balance b.         *)
Balances == {-1000, 0, 1000}
BalanceReplies == {<<>>} \cup {<<b>> : b \in Balances}

(* One entry of a pricing reply: a well-formed quote whose spread is       *)
(* within or above the instrument's max_spread, an entry that cannot be    *)
(* parsed, or no entry at all.                                             *)
QuoteKinds == {"tight", "wide", "malformed", "missing"}
NoReply == [i \in Instruments |-> "missing"]

(* What calculate_advanced_signals can return: determine_final_signal      *)
(* gives BUY/SELL with the computed confidence or HOLD with 0.5; the       *)
(* error path gives HOLD with 0.0.                                         *)
Analyses ==
  {[signal |-> s, confidence |-> c] : s \in {"BUY", "SELL"}, c \in {60, 90}}
    \cup {[signal |-> "HOLD", confidence |-> 50], [signal |-> "HOLD", confidence |-> 0]}

VARIABLES
  manager,            \* "init", "running" or "exited": UltraOptimizedBotManager
  running,            \* AdvancedTrader.running
  day,                \* the calendar day of datetime.now()
  positions,          \* broker: modelled instruments that have an open position
  trade_history,      \* AdvancedTrader.trade_history
  trade_count,        \* AdvancedTrader.trade_count
  win_streak, loss_streak, consecutive_wins, consecutive_losses, profit_factor,
  db_trades,          \* persistence boundary: save_trade invocations
  db_performance,     \* persistence boundary: performance snapshots saved
  pc,                 \* per task of AdvancedTrader.run: where it stands
  exposure,           \* per task: the local `exposure` of trading_loop
  prices_reply,       \* per task: the pricing reply get_enhanced_prices failed on
  price_data,         \* per task: entries of price_data the for-loop has yet to visit
  instrument,         \* per task: the for-loop's current instrument
  traded,             \* per task: a trade was executed since this cycle's check_daily_limits
  args,               \* the arguments and object state of one call of a function
  result              \* what that call returned, Pending before it has run

perfVars == <<win_streak, loss_streak, consecutive_wins, consecutive_losses, profit_factor>>
traderVars == <<running, trade_history, trade_count, perfVars>>
dbVars == <<db_trades, db_performance>>
loopVars == <<pc, exposure, prices_reply, price_data, instrument, traded>>
callVars == <<args, result>>
vars == <<manager, day, positions, traderVars, dbVars, callVars, loopVars>>

(* ----------------------------- helpers -------------------------------- *)
TruncDiv(a, b) == IF a >= 0 THEN a \div b ELSE -((-a) \div b)   \* Python int()
Min(a, b) == IF a <= b THEN a ELSE b
Max(a, b) == IF a >= b THEN a ELSE b

SleepPCs == {"sleep_limits", "sleep_maxpos", "sleep_noprices", "sleep_inst",
             "sleep_cycle", "sleep_error"}
Yielded(l) == pc[l] \in SleepPCs \cup {"none", "start"}
\* loop l may take a coroutine step
Scheduled(l) == manager = "running" /\ \A m \in Loops \ {l} : Yielded(m)
\* a chat command handler may run
HandlerMayRun == manager = "running" /\ \A m \in Loops : Yielded(m)

today_trades == SelectSeq(trade_history, LAMBDA t : t.day = day)

\* deque(maxlen=1000).append
DequeAppend(q, x, maxlen) ==
  IF Len(q) >= maxlen THEN Append(Tail(q), x) ELSE Append(q, x)

(* check_daily_limits, given the reply to its balance request *)
check_daily_limits(reply) ==
  IF Len(today_trades) >= DailyTradeCap THEN FALSE
  ELSE IF reply = <<>> \/ reply[1] = 0 THEN FALSE
  ELSE LET current_balance == reply[1]
           daily_risk == Len(today_trades) * (current_balance * risk_per_trade)
           max_daily_risk_amount == current_balance * max_daily_risk
       IN daily_risk < max_daily_risk_amount

(* get_current_exposure: the instruments with a position, {} on error *)
get_current_exposure(ok) == IF ok THEN positions ELSE {}
(* len(exposure) in trading_loop; `other` counts the reply's entries for *)
(* instruments outside the modelled ones                                 *)
active_positions(ok, other) == IF ok THEN Cardinality(positions) + other ELSE 0

(* get_enhanced_prices: None when an entry fails to parse, else one item *)
(* per entry of the reply, in the reply's order                          *)
PricesFail(q) == \E i \in Instruments : q[i] = "malformed"
RECURSIVE ItemsFrom(_, _)
ItemsFrom(q, k) ==
  IF k > NumInstruments THEN <<>>
  ELSE LET i == InstrumentList[k]
       IN IF q[i] = "missing" THEN ItemsFrom(q, k + 1)
          ELSE <<[instrument |-> i, spread |-> q[i]]>> \o ItemsFrom(q, k + 1)
get_enhanced_prices(q) == ItemsFrom(q, 1)

(* a sizer that returns the limited units as they are *)
calculate_optimal_position_size_Unclamped(inst, reply, confidence, regime) ==
  IF reply = <<>> \/ reply[1] = 0 THEN 0
  ELSE LET balance == reply[1]
           regime2 == CASE regime = "VOLATILE" -> 1
                        [] regime = "TRENDING" -> 3
                        [] OTHER -> 2
           leverage == IF inst \in {"EUR_USD", "GBP_USD", "AUD_USD", "NZD_USD", "USD_JPY"}
                       THEN 100 ELSE 80
           units0 == TruncDiv(balance * risk_per_trade * confidence * regime2
                                * (leverage \div 20), 500)
       IN Min(units0, Min(UnitsCap, TruncDiv(balance, 10)))

(* calculate_optimal_position_size, given the reply to its balance request *)
calculate_optimal_position_size(inst, reply, confidence, regime) ==
  IF reply = <<>> \/ reply[1] = 0 THEN 0
  ELSE LET balance == reply[1]
           \* regime multiplier, doubled: NORMAL 1.0, VOLATILE 0.5, TRENDING 1.5
           regime2 == CASE regime = "VOLATILE" -> 1
                        [] regime = "TRENDING" -> 3
                        [] OTHER -> 2
           \* units = int(balance*0.01 * confidence*2 * multiplier * leverage)
           leverage == IF inst \in {"EUR_USD", "GBP_USD", "AUD_USD", "NZD_USD", "USD_JPY"}
                       THEN 100 ELSE 80
           \* (the fraction is reduced by 20 to stay within 32-bit integers)
           units0 == TruncDiv(balance * risk_per_trade * confidence * regime2
                                * (leverage \div 20), 500)
           max_units == Min(UnitsCap, TruncDiv(balance, 10))
           units == Min(units0, max_units)
       IN IF units > 0 THEN Max(units, MinUnits) ELSE 0

(* a tracking that leaves the profit factor unclamped *)
update_performance_tracking_Unclamped(h) ==
  IF Len(h) >= 2
  THEN LET n == Min(Len(h), 5)
           recent_trades == SubSeq(h, Len(h) - n + 1, Len(h))
           wins == Cardinality({k \in 1..n : recent_trades[k].expected_profit > 0})
           won == 2 * wins > n
           ws == IF won THEN win_streak + 1 ELSE 0
           ls == IF won THEN 0 ELSE loss_streak + 1
       IN [win_streak |-> ws, loss_streak |-> ls,
           consecutive_wins |-> IF won THEN consecutive_wins + 1 ELSE 0,
           consecutive_losses |-> IF won THEN 0 ELSE consecutive_losses + 1,
           profit_factor |-> 100 + ws * 10 - ls * 5]
  ELSE [win_streak |-> win_streak, loss_streak |-> loss_streak,
        consecutive_wins |-> consecutive_wins,
        consecutive_losses |-> consecutive_losses,
        profit_factor |-> profit_factor]

(* update_performance_tracking, on the history h that already holds the new trade *)
update_performance_tracking(h) ==
  IF Len(h) >= 2
  THEN LET n == Min(Len(h), 5)
           recent_trades == SubSeq(h, Len(h) - n + 1, Len(h))
           wins == Cardinality({k \in 1..n : recent_trades[k].expected_profit > 0})
           won == 2 * wins > n
           ws == IF won THEN win_streak + 1 ELSE 0
           ls == IF won THEN 0 ELSE loss_streak + 1
       IN [win_streak |-> ws, loss_streak |-> ls,
           consecutive_wins |-> IF won THEN consecutive_wins + 1 ELSE 0,
           consecutive_losses |-> IF won THEN 0 ELSE consecutive_losses + 1,
           profit_factor |-> Max(50, Min(200, 100 + ws * 10 - ls * 5))]
  ELSE [win_streak |-> win_streak, loss_streak |-> loss_streak,
        consecutive_wins |-> consecutive_wins,
        consecutive_losses |-> consecutive_losses,
        profit_factor |-> profit_factor]

(* ------------------------------ Init ----------------------------------- *)
\* no call is modelled; a call that has not returned; a call that returned v
NoCall == <<>>
Pending == <<>>
Returned(v) == <<v>>

\* the trader and its surroundings after construction
TraderInit ==
  /\ manager = "init"
  /\ running = FALSE
  /\ day = 0
  /\ positions = {}
  /\ trade_history = <<>>
  /\ trade_count = 0
  /\ win_streak = 0 /\ loss_streak = 0
  /\ consecutive_wins = 0 /\ consecutive_losses = 0
  /\ profit_factor = 100
  /\ db_trades = 0
  /\ db_performance = 0
  /\ pc = [l \in Loops |-> "none"]
  /\ exposure = [l \in Loops |-> {}]
  /\ prices_reply = [l \in Loops |-> NoReply]
  /\ price_data = [l \in Loops |-> <<>>]
  /\ instrument = [l \in Loops |-> NoInstrument]
  /\ traded = [l \in Loops |-> FALSE]

Init ==
  /\ TraderInit
  /\ args = NoCall
  /\ result = Pending

(* What the surroundings may send in one run: the entries of a pricing     *)
(* reply, whether the exposure request can fail, the sign of a fill's      *)
(* expected_profit, and the number of trades after which the run is cut.   *)
Full == [kinds |-> QuoteKinds, exposure_ok |-> BOOLEAN,
         profits |-> {1}, max_trades |-> MaxTrades]
Daily == [kinds |-> {"tight"}, exposure_ok |-> {TRUE},
          profits |-> {1}, max_trades |-> DailyRunTrades]

(* ------------------- manager and chat commands ------------------------- *)
\* main.py start_components: the trader's run() becomes a task
start_components ==
  /\ manager = "init"
  /\ manager' = "running"
  /\ pc' = [pc EXCEPT ![1] = "start"]
  /\ UNCHANGED <<day, positions, traderVars, dbVars, callVars,
                 exposure, prices_reply, price_data, instrument, traded>>

\* main.py signal_handler: stop() on every component, save_final_report(),
\* sys.exit(0).  It runs between any two instructions of the process;
\* nothing of the trader is handed to the database.
signal_handler ==
  /\ manager = "running"
  /\ running' = FALSE
  /\ manager' = "exited"
  /\ UNCHANGED <<day, positions, trade_history, trade_count, perfVars, dbVars, callVars, loopVars>>

\* bot.py stop_command -> AdvancedTrader.stop
stop_command ==
  /\ HandlerMayRun
  /\ running' = FALSE
  /\ UNCHANGED <<manager, day, positions, trade_history, trade_count, perfVars,
                 dbVars, callVars, loopVars>>

\* bot.py restart_command: running = True and a new run() task
restart_command(l) ==
  /\ HandlerMayRun
  /\ pc[l] = "none"
  /\ \A m \in Loops : m < l => pc[m] # "none"
  /\ running' = TRUE
  /\ pc' = [pc EXCEPT ![l] = "start"]
  /\ UNCHANGED <<manager, day, positions, trade_history, trade_count, perfVars,
                 dbVars, callVars, exposure, prices_reply, price_data, instrument, traded>>

(* --------------------------- AdvancedTrader.run ------------------------ *)
RunSetsRunning ==
  /\ running' = TRUE
  /\ UNCHANGED <<manager, day, positions, trade_history, trade_count, perfVars,
                 dbVars, callVars, exposure, prices_reply, price_data, instrument, traded>>

\* run(): initial balance obtained, trading_loop entered
RunStart(l) ==
  /\ Scheduled(l) /\ pc[l] = "start"
  /\ \E reply \in BalanceReplies : reply # <<>>
  /\ pc' = [pc EXCEPT ![l] = "top"]
  /\ RunSetsRunning

\* run(): get_balance returned None, run() returns
RunAbort(l) ==
  /\ Scheduled(l) /\ pc[l] = "start"
  /\ \E reply \in BalanceReplies : reply = <<>>
  /\ pc' = [pc EXCEPT ![l] = "none"]
  /\ RunSetsRunning

(* ------------------------ trading_loop: cycle head --------------------- *)
LoopFrame == UNCHANGED <<manager, day, positions, traderVars, dbVars, callVars>>
Locals == <<exposure, prices_reply, price_data, instrument, traded>>

\* `while self.running` is false: the loop and run() end
LoopExit(l) ==
  /\ Scheduled(l) /\ pc[l] = "top" /\ ~running
  /\ pc' = [pc EXCEPT ![l] = "none"]
  /\ UNCHANGED Locals
  /\ LoopFrame

\* `while self.running` is true: a cycle starts
CycleBegin(l) ==
  /\ Scheduled(l) /\ pc[l] = "top" /\ running
  /\ pc' = [pc EXCEPT ![l] = "cycle"]
  /\ UNCHANGED Locals
  /\ LoopFrame

\* check_daily_limits() is false: sleep 300 and continue
LimitsReached(l) ==
  /\ Scheduled(l) /\ pc[l] = "cycle"
  /\ \E reply \in BalanceReplies : ~check_daily_limits(reply)
  /\ pc' = [pc EXCEPT ![l] = "sleep_limits"]
  /\ UNCHANGED Locals
  /\ LoopFrame

\* the part of a cycle that every later branch has passed
LimitsPassed(l) ==
  /\ Scheduled(l) /\ pc[l] = "cycle"
  /\ \E reply \in BalanceReplies : check_daily_limits(reply)

\* active_positions >= max_positions: sleep 60 and continue
MaxPositionsReached(l, E) ==
  /\ LimitsPassed(l)
  /\ \E ok \in E.exposure_ok, other \in 0..MaxOther :
       active_positions(ok, other) >= max_positions
  /\ pc' = [pc EXCEPT ![l] = "sleep_maxpos"]
  /\ UNCHANGED Locals
  /\ LoopFrame

\* get_enhanced_prices() returned None: the reply had an entry it could not parse
PricesError(l, E) ==
  /\ LimitsPassed(l)
  /\ \E ok \in E.exposure_ok, other \in 0..MaxOther, q \in [Instruments -> E.kinds] :
       /\ active_positions(ok, other) < max_positions
       /\ PricesFail(q)
       /\ exposure' = [exposure EXCEPT ![l] = get_current_exposure(ok)]
       /\ prices_reply' = [prices_reply EXCEPT ![l] = q]
  /\ pc' = [pc EXCEPT ![l] = "no_prices"]
  /\ UNCHANGED <<price_data, instrument, traded>>
  /\ LoopFrame

\* get_enhanced_prices() returned an empty dict: the reply had no entries
PricesEmpty(l, E) ==
  /\ LimitsPassed(l)
  /\ "missing" \in E.kinds
  /\ \E ok \in E.exposure_ok, other \in 0..MaxOther :
       /\ active_positions(ok, other) < max_positions
       /\ exposure' = [exposure EXCEPT ![l] = get_current_exposure(ok)]
  /\ prices_reply' = [prices_reply EXCEPT ![l] = NoReply]
  /\ pc' = [pc EXCEPT ![l] = "no_prices"]
  /\ UNCHANGED <<price_data, instrument, traded>>
  /\ LoopFrame

\* `if not price_data`: sleep 30 and continue
NoPrices(l) ==
  /\ Scheduled(l) /\ pc[l] = "no_prices"
  /\ pc' = [pc EXCEPT ![l] = "sleep_noprices"]
  /\ exposure' = [exposure EXCEPT ![l] = {}]
  /\ prices_reply' = [prices_reply EXCEPT ![l] = NoReply]
  /\ UNCHANGED <<price_data, instrument, traded>>
  /\ LoopFrame

\* the for-loop over price_data begins
BeginScan(l, E) ==
  /\ LimitsPassed(l)
  /\ \E ok \in E.exposure_ok, other \in 0..MaxOther, q \in [Instruments -> E.kinds] :
       /\ active_positions(ok, other) < max_positions
       /\ ~PricesFail(q) /\ get_enhanced_prices(q) # <<>>
       /\ exposure' = [exposure EXCEPT ![l] = get_current_exposure(ok)]
       /\ price_data' = [price_data EXCEPT ![l] = get_enhanced_prices(q)]
  /\ pc' = [pc EXCEPT ![l] = "for"]
  /\ traded' = [traded EXCEPT ![l] = FALSE]
  /\ UNCHANGED <<prices_reply, instrument>>
  /\ LoopFrame

(* ---------------------- trading_loop: one instrument ------------------- *)
AtItem(l) == Scheduled(l) /\ pc[l] = "for" /\ price_data[l] # <<>>
item(l) == Head(price_data[l])
\* a skip test that looks at the exposure snapshot only
Skipped_ExposureOnly(l) == item(l).instrument \in exposure[l]
\* the two `continue` tests of the for-loop body
Skipped(l) == item(l).instrument \in exposure[l] \/ item(l).spread = "wide"

\* the locals of a finished cycle are not read again
CycleOver(l, sleep) ==
  /\ pc' = [pc EXCEPT ![l] = sleep]
  /\ exposure' = [exposure EXCEPT ![l] = {}]
  /\ price_data' = [price_data EXCEPT ![l] = <<>>]
  /\ traded' = [traded EXCEPT ![l] = FALSE]
  /\ UNCHANGED <<prices_reply, instrument>>

\* the for-loop is exhausted: adaptive sleep, then the while test
EndCycle(l) ==
  /\ Scheduled(l) /\ pc[l] = "for" /\ price_data[l] = <<>>
  /\ CycleOver(l, "sleep_cycle")
  /\ LoopFrame

\* `if not self.running: break`
BreakOnStop(l) ==
  /\ AtItem(l) /\ ~running
  /\ CycleOver(l, "sleep_cycle")
  /\ LoopFrame

\* `continue` on an instrument of the exposure snapshot or with a wide spread
SkipInstrument(l) ==
  /\ AtItem(l) /\ running /\ Skipped(l)
  /\ price_data' = [price_data EXCEPT ![l] = Tail(price_data[l])]
  /\ UNCHANGED <<pc, exposure, prices_reply, instrument, traded>>
  /\ LoopFrame

\* does this analysis, with this regime and balance reply, lead to execute_trade?
Trades(inst, analysis, regime, reply) ==
  /\ analysis.signal # "HOLD"
  /\ analysis.confidence > ConfidenceGate
  /\ calculate_optimal_position_size(inst, reply, analysis.confidence, regime) > 0

\* the instrument is analysed and no order is sent; sleep 1
EvaluateNoTrade(l) ==
  /\ AtItem(l) /\ running /\ ~Skipped(l)
  /\ \E analysis \in Analyses, regime \in Regimes, reply \in BalanceReplies :
       ~Trades(item(l).instrument, analysis, regime, reply)
  /\ pc' = [pc EXCEPT ![l] = "sleep_inst"]
  /\ price_data' = [price_data EXCEPT ![l] = Tail(price_data[l])]
  /\ UNCHANGED <<exposure, prices_reply, instrument, traded>>
  /\ LoopFrame

\* the instrument is analysed and execute_trade sends the order
EvaluateTrade(l, E) ==
  /\ AtItem(l) /\ running /\ ~Skipped(l)
  /\ Len(trade_history) < E.max_trades
  /\ \E analysis \in Analyses, regime \in Regimes, reply \in BalanceReplies :
       Trades(item(l).instrument, analysis, regime, reply)
  /\ pc' = [pc EXCEPT ![l] = "order"]
  /\ instrument' = [instrument EXCEPT ![l] = item(l).instrument]
  /\ price_data' = [price_data EXCEPT ![l] = Tail(price_data[l])]
  /\ UNCHANGED <<exposure, prices_reply, traded>>
  /\ LoopFrame

\* execute_trade: the broker fills the order.  With positionFill DEFAULT an
\* order on an instrument that already has a position adds to it or nets it out.
OrderFilled(l) ==
  /\ Scheduled(l) /\ pc[l] = "order"
  /\ \/ positions' = positions \cup {instrument[l]}
     \/ instrument[l] \in positions /\ positions' = positions \ {instrument[l]}
  /\ pc' = [pc EXCEPT ![l] = "filled"]
  /\ UNCHANGED <<manager, day, traderVars, dbVars, callVars, Locals>>

\* a rejection that is counted as a trade all the same
OrderNotFilled_Counted(l) ==
  /\ Scheduled(l) /\ pc[l] = "order"
  /\ pc' = [pc EXCEPT ![l] = "not_filled"]
  /\ trade_count' = trade_count + 1
  /\ UNCHANGED <<Locals, manager, day, positions, running, trade_history, perfVars, dbVars, callVars>>

\* execute_trade: no orderFillTransaction in the reply, or the request raised
OrderNotFilled(l) ==
  /\ Scheduled(l) /\ pc[l] = "order"
  /\ pc' = [pc EXCEPT ![l] = "not_filled"]
  /\ UNCHANGED Locals
  /\ LoopFrame

\* execute_trade returned False; sleep 1
TradeFailed(l) ==
  /\ Scheduled(l) /\ pc[l] = "not_filled"
  /\ pc' = [pc EXCEPT ![l] = "sleep_inst"]
  /\ instrument' = [instrument EXCEPT ![l] = NoInstrument]
  /\ UNCHANGED <<exposure, prices_reply, price_data, traded>>
  /\ LoopFrame

\* execute_trade after the fill: trade_info appended, trade_count,
\* update_performance_tracking
TradeRecorded(ep) ==
  LET h == DequeAppend(trade_history,
                       [day |-> day, expected_profit |-> ep], TradeHistoryMaxLen)
      p == update_performance_tracking(h)
  IN /\ trade_history' = h
     /\ trade_count' = trade_count + 1
     /\ win_streak' = p.win_streak
     /\ loss_streak' = p.loss_streak
     /\ consecutive_wins' = p.consecutive_wins
     /\ consecutive_losses' = p.consecutive_losses
     /\ profit_factor' = p.profit_factor

\* execute_trade after the fill, return True; sleep 1.  Nothing is passed
\* to the database.
RecordTrade(l, E) ==
  /\ Scheduled(l) /\ pc[l] = "filled"
  /\ \E ep \in E.profits : TradeRecorded(ep)
  /\ traded' = [traded EXCEPT ![l] = TRUE]
  /\ pc' = [pc EXCEPT ![l] = "sleep_inst"]
  /\ instrument' = [instrument EXCEPT ![l] = NoInstrument]
  /\ UNCHANGED <<manager, day, running, positions, dbVars, callVars,
                 exposure, prices_reply, price_data>>

\* `except Exception` of the while body: log, sleep 30
CycleError(l) ==
  /\ Scheduled(l) /\ pc[l] \in {"cycle", "for"}
  /\ CycleOver(l, "sleep_error")
  /\ LoopFrame

\* a sleep after which the error handler leaves the while loop
Wake_ErrorEndsLoop(l) ==
  /\ Scheduled(l) /\ pc[l] \in SleepPCs
  /\ pc' = [pc EXCEPT ![l] = CASE pc[l] = "sleep_inst" -> "for"
                                [] pc[l] = "sleep_error" -> "none"
                                [] OTHER -> "top"]
  /\ UNCHANGED Locals
  /\ LoopFrame

\* an asyncio.sleep ends: after the per-instrument sleep the for-loop goes
\* on, after every other sleep the while test follows
Wake(l) ==
  /\ Scheduled(l) /\ pc[l] \in SleepPCs
  /\ pc' = [pc EXCEPT ![l] = IF pc[l] = "sleep_inst" THEN "for" ELSE "top"]
  /\ UNCHANGED Locals
  /\ LoopFrame

(* ------------------------- broker and calendar ------------------------- *)
\* a position is closed at the broker (stop loss or take profit hit)
ClosePosition(i) ==
  /\ manager = "running" /\ i \in positions
  /\ positions' = positions \ {i}
  /\ UNCHANGED <<manager, day, traderVars, dbVars, callVars, loopVars>>

\* midnight: datetime.now().date() changes
DayRollover ==
  /\ manager = "running" /\ day < MaxDay
  /\ day' = day + 1
  /\ UNCHANGED <<manager, positions, traderVars, dbVars, callVars, loopVars>>

(* --------------------------- specifications ---------------------------- *)
LoopStep(l) ==
  \/ RunStart(l) \/ RunAbort(l) \/ LoopExit(l) \/ CycleBegin(l)
  \/ LimitsReached(l) \/ MaxPositionsReached(l, Full)
  \/ PricesError(l, Full) \/ PricesEmpty(l, Full) \/ NoPrices(l)
  \/ BeginScan(l, Full) \/ EndCycle(l) \/ BreakOnStop(l) \/ SkipInstrument(l)
  \/ EvaluateNoTrade(l) \/ EvaluateTrade(l, Full) \/ OrderFilled(l)
  \/ OrderNotFilled(l) \/ TradeFailed(l) \/ RecordTrade(l, Full)
  \/ CycleError(l) \/ Wake(l)

Next ==
  \/ start_components
  \/ signal_handler
  \/ stop_command
  \/ \E l \in Loops : restart_command(l)
  \/ \E l \in Loops : LoopStep(l)
  \/ \E i \in Instruments : ClosePosition(i)

(* The trader, the chat commands and the shutdown signal within one day. *)
Spec == Init /\ [][Next]_vars

(* One task at a time: /restart is sent only after the previous run() has *)
(* returned.                                                              *)
SoloNext ==
  \/ start_components
  \/ signal_handler
  \/ stop_command
  \/ restart_command(1)
  \/ LoopStep(1)
  \/ \E i \in Instruments : ClosePosition(i)

SoloSpec == Init /\ [][SoloNext]_vars

(* The event loop runs every ready task in turn and every asyncio.sleep    *)
(* ends, so a task that is ready again and again is run.                   *)
FairSpec == Spec /\ \A l \in Loops : SF_vars(LoopStep(l))
SoloFairSpec == SoloSpec /\ SF_vars(LoopStep(1))

(* One task, no chat command and no signal, well-formed tight quotes, a    *)
(* working exposure request: the days of an undisturbed trader.            *)
DailyStep(l) ==
  \/ RunStart(l) \/ CycleBegin(l) \/ LimitsReached(l)
  \/ MaxPositionsReached(l, Daily) \/ BeginScan(l, Daily) \/ EndCycle(l)
  \/ SkipInstrument(l) \/ EvaluateNoTrade(l) \/ EvaluateTrade(l, Daily)
  \/ OrderFilled(l) \/ RecordTrade(l, Daily) \/ Wake(l)

DailyNext ==
  \/ start_components
  \/ DailyStep(1)
  \/ \E i \in Instruments : ClosePosition(i)
  \/ DayRollover

DailySpec == Init /\ [][DailyNext]_vars

(* ----------------------- signals of the trader -------------------------- *)
(* Scores, factors, sentiment and confidence are kept in units of 1/10000,  *)
(* prices, spreads and volatility in units of 0.00001, momentum (a relative *)
(* price change) in units of 0.000001.                                      *)
Unit == 10000
PricePerUnit == 100000
Abs(x) == IF x < 0 THEN -x ELSE x
Sign(x) == IF x > 0 THEN 1 ELSE IF x < 0 THEN -1 ELSE 0
\* x * f for a factor f in units of 1/10000
Scaled(x, f) == TruncDiv(x * f, Unit)

\* self.instruments: max_spread and volatility_threshold per instrument
max_spread(inst) ==
  CASE inst = "EUR_USD" -> 30 [] inst = "GBP_USD" -> 40 [] inst = "USD_JPY" -> 300
    [] inst = "USD_CHF" -> 40 [] inst = "AUD_USD" -> 50 [] inst = "USD_CAD" -> 40
    [] OTHER -> 60
volatility_threshold(inst) ==
  CASE inst = "EUR_USD" -> 200 [] inst = "GBP_USD" -> 300 [] inst = "USD_JPY" -> 2000
    [] inst = "USD_CHF" -> 200 [] inst = "AUD_USD" -> 300 [] inst = "USD_CAD" -> 200
    [] OTHER -> 300

(* get_enhanced_prices, the entry it builds for one instrument: `samples`   *)
(* is len(price_history) after the append, `stats` what numpy computes on   *)
(* the buffered prices (mean of the last 20 and 50, std of the last 20,     *)
(* change against the 10th last).                                           *)
enhanced_prices(samples, mid, spread, stats) ==
  IF samples >= 20
  THEN LET sma_20 == stats.sma_20
           sma_50 == IF samples >= 50 THEN stats.sma_50 ELSE sma_20
       IN [mid |-> mid, spread |-> spread, sma_20 |-> sma_20, sma_50 |-> sma_50,
           volatility |-> stats.volatility, momentum |-> stats.momentum,
           trend |-> IF mid > sma_20 /\ sma_20 > sma_50 THEN "UP"
                     ELSE IF mid < sma_20 /\ sma_20 < sma_50 THEN "DOWN"
                     ELSE "SIDEWAYS"]
  ELSE [mid |-> mid, spread |-> spread, sma_20 |-> mid, sma_50 |-> mid,
        volatility |-> 0, momentum |-> 0, trend |-> "SIDEWAYS"]

multi_timeframe_analysis(p) ==
  LET short_term_score == TruncDiv(p.momentum * 2, 100)
      medium_term_score == TruncDiv((p.sma_20 - p.sma_50) * Unit, p.mid)
      long_term_value == CASE p.trend = "UP" -> 3000 [] p.trend = "DOWN" -> -3000 [] OTHER -> 0
  IN TruncDiv(short_term_score * 5 + medium_term_score * 3 + long_term_value * 2, 10)

calculate_trend_strength(p) ==
  IF p.sma_20 = 0 \/ p.sma_50 = 0 \/ p.mid = 0 THEN 0
  ELSE LET base == TruncDiv(Abs(p.mid - p.sma_50) * Unit, p.sma_50)
           aligned == \/ (p.mid > p.sma_20 /\ p.sma_20 > p.sma_50)
                      \/ (p.mid < p.sma_20 /\ p.sma_20 < p.sma_50)
       IN Min(IF aligned THEN TruncDiv(base * 3, 2) ELSE base, Unit)

\* normalized_momentum = momentum / volatility = p.momentum / (10 * p.volatility)
calculate_momentum_score(p) ==
  IF p.volatility > 0
  THEN IF Abs(p.momentum) > 20 * p.volatility THEN Sign(p.momentum) * 8000
       ELSE IF Abs(p.momentum) > 10 * p.volatility THEN Sign(p.momentum) * 4000
       ELSE TruncDiv(p.momentum * 200, p.volatility)
  ELSE 0

\* deviation = |mid - sma_20| / sma_20, compared with the volatility as a number
detect_breakout(p) ==
  IF p.mid = 0 \/ p.sma_20 = 0 THEN 0
  ELSE LET deviation == Abs(p.mid - p.sma_20) * PricePerUnit
       IN IF deviation > p.volatility * 3 * p.sma_20 THEN Sign(p.mid - p.sma_20) * 6000
          ELSE IF deviation > p.volatility * 2 * p.sma_20 THEN Sign(p.mid - p.sma_20) * 3000
          ELSE 0

analyze_volume_confirmation(inst, p) ==
  Max(5000, Unit - TruncDiv(p.spread * Unit, max_spread(inst)))

get_regime_multiplier(regime) ==
  CASE regime = "TRENDING" -> 13000 [] regime = "BREAKOUT" -> 15000
    [] regime = "VOLATILE" -> 7000 [] regime = "REVERSAL" -> 12000 [] OTHER -> 10000

calculate_volatility_factor(inst, p) ==
  IF p.volatility > volatility_threshold(inst) * 2 THEN 5000
  ELSE IF p.volatility > volatility_threshold(inst) THEN 7000 ELSE 12000

calculate_sentiment_influence(sentiment, p) ==
  LET base_influence == TruncDiv((sentiment - 5000) * 6, 10)
  IN IF (sentiment > 6000 /\ p.trend = "UP") \/ (sentiment < 4000 /\ p.trend = "DOWN")
     THEN TruncDiv(base_influence * 3, 2) ELSE base_influence

\* correlation_pairs of calculate_correlation_penalty
correlation_pairs(inst) ==
  CASE inst = "EUR_USD" -> {"GBP_USD", "AUD_USD"}
    [] inst = "GBP_USD" -> {"EUR_USD", "AUD_USD"}
    [] inst = "USD_JPY" -> {"USD_CHF", "USD_CAD"}
    [] inst = "USD_CHF" -> {"USD_JPY", "USD_CAD"}
    [] inst = "AUD_USD" -> {"EUR_USD", "GBP_USD", "NZD_USD"}
    [] inst = "USD_CAD" -> {"USD_JPY", "USD_CHF"}
    [] inst = "NZD_USD" -> {"AUD_USD"}
    [] OTHER -> {}
PenaltyStep == 1500
PenaltyCap == 5000
\* a penalty that grows the score instead of shrinking it
penalty_for_Bonus(count) == -Min(count * PenaltyStep, PenaltyCap)
\* the penalty for a number of correlated instruments that hold exposure
penalty_for(count) == Min(count * PenaltyStep, PenaltyCap)
\* current_exposure is what get_current_exposure returned ({} also on error)
calculate_correlation_penalty(inst, current_exposure) ==
  IF current_exposure = {} THEN 0
  ELSE penalty_for(Cardinality(correlation_pairs(inst) \cap current_exposure))

analyze_news_impact(trend, sentiment) ==
  IF trend = "IMPROVING" /\ sentiment > 6000 THEN 3000
  ELSE IF trend = "DECLINING" /\ sentiment < 4000 THEN -3000
  ELSE 0

calculate_dynamic_confidence(total_score, inst, p, a) ==
  LET base_confidence == Min(Abs(total_score), 9500)
      by_streak == IF a.win_streak >= 3 THEN TruncDiv(base_confidence * 11, 10)
                   ELSE IF a.loss_streak >= 2 THEN TruncDiv(base_confidence * 9, 10)
                   ELSE base_confidence
      by_market == IF p.volatility < volatility_threshold(inst)
                   THEN TruncDiv(by_streak * 115, 100) ELSE by_streak
  IN Min(by_market, 9800)

\* the threshold determine_final_signal compares the score with
buy_threshold(regime, confidence) ==
  LET base == IF regime \in {"TRENDING", "BREAKOUT"} THEN 3500 ELSE 4500
  IN IF confidence > 8000 THEN TruncDiv(base * 8, 10)
     ELSE IF confidence < 6000 THEN TruncDiv(base * 12, 10)
     ELSE base

determine_final_signal(total_score, confidence, regime) ==
  IF total_score > buy_threshold(regime, confidence)
  THEN [signal |-> "BUY", confidence |-> confidence]
  ELSE IF total_score < -buy_threshold(regime, confidence)
  THEN [signal |-> "SELL", confidence |-> confidence]
  ELSE [signal |-> "HOLD", confidence |-> 5000]

(* calculate_advanced_signals for the arguments and object state in a:     *)
(* instrument, samples, mid, spread, stats, sentiment, sentiment_trend,    *)
(* market_regime, win_streak, loss_streak, consecutive_wins,               *)
(* current_exposure, profit_acceleration_mode.                             *)
price_data_of(a) == enhanced_prices(a.samples, a.mid, a.spread, a.stats)
\* tech_score before the regime and volatility adjustments
raw_tech_score(a) ==
  LET p == price_data_of(a)
      trend_strength == calculate_trend_strength(p)
      by_trend == IF p.trend = "UP" /\ trend_strength > 6000 THEN Scaled(trend_strength, 4000)
                  ELSE IF p.trend = "DOWN" /\ trend_strength > 6000
                       THEN -Scaled(trend_strength, 4000)
                  ELSE 0
      summed == by_trend + Scaled(calculate_momentum_score(p), 3000)
                         + Scaled(detect_breakout(p), 2500)
  IN Scaled(summed, analyze_volume_confirmation(a.instrument, p))
tech_score(a) ==
  Scaled(Scaled(raw_tech_score(a), get_regime_multiplier(a.market_regime)),
         calculate_volatility_factor(a.instrument, price_data_of(a)))
\* the weighted sum of the four scores
weighted_sum(tech, a) ==
  LET p == price_data_of(a)
  IN TruncDiv(tech * 45 + calculate_sentiment_influence(a.sentiment, p) * 25
              + multi_timeframe_analysis(p) * 20
              + analyze_news_impact(a.sentiment_trend, a.sentiment) * 10, 100)
correlation_penalty(a) == calculate_correlation_penalty(a.instrument, a.current_exposure)
total_score(a) ==
  LET penalised == Scaled(weighted_sum(tech_score(a), a), Unit - correlation_penalty(a))
  IN IF a.profit_acceleration_mode /\ a.consecutive_wins >= 3
     THEN TruncDiv(penalised * 12, 10) ELSE penalised
calculate_advanced_signals(a) ==
  LET confidence == calculate_dynamic_confidence(total_score(a), a.instrument,
                                                 price_data_of(a), a)
      final == determine_final_signal(total_score(a), confidence, a.market_regime)
  IN [signal |-> final.signal, confidence |-> final.confidence,
      total_score |-> total_score(a), correlation_penalty |-> correlation_penalty(a)]

(* One call of calculate_advanced_signals: the arguments and the object   *)
(* state it reads are drawn at the start, the call returns its analysis.  *)
SignalInstruments == {"GBP_USD", "AUD_USD"}
SampleCounts == {5, 20, 49, 50}
\* the last quote with what numpy computes on the buffer: unchanged prices,
\* and nineteen equal prices followed by a move of 0.001 up or down
Histories ==
  { [mid |-> 100000,
     stats |-> [sma_20 |-> 100000, sma_50 |-> 100000, volatility |-> 0, momentum |-> 0]],
    [mid |-> 100100,
     stats |-> [sma_20 |-> 100005, sma_50 |-> 100002, volatility |-> 22, momentum |-> 1000]],
    [mid |-> 99900,
     stats |-> [sma_20 |-> 99995, sma_50 |-> 99998, volatility |-> 22, momentum |-> -1000]] }
Spreads == {1, 20}
Sentiments == {0, 5000, 10000}
SentimentTrends == {"IMPROVING", "DECLINING", "STABLE"}
Streaks ==
  { [win_streak |-> 0, loss_streak |-> 0, consecutive_wins |-> 0],
    [win_streak |-> 3, loss_streak |-> 0, consecutive_wins |-> 3],
    [win_streak |-> 0, loss_streak |-> 2, consecutive_wins |-> 0] }
Exposures == SUBSET {"EUR_USD", "GBP_USD", "NZD_USD", "USD_JPY"}
\* profit_acceleration_mode: True after __init__; an attribute a caller may clear
AccelerationModes == BOOLEAN
SignalInputs ==
  { [instrument |-> i, samples |-> n, mid |-> h.mid, spread |-> sp, stats |-> h.stats,
     sentiment |-> se, sentiment_trend |-> st, market_regime |-> r,
     win_streak |-> k.win_streak, loss_streak |-> k.loss_streak,
     consecutive_wins |-> k.consecutive_wins, current_exposure |-> e,
     profit_acceleration_mode |-> m] :
    i \in SignalInstruments, n \in SampleCounts, h \in Histories, sp \in Spreads,
    se \in Sentiments, st \in SentimentTrends, r \in Regimes, k \in Streaks,
    e \in Exposures, m \in AccelerationModes }

EngineIdle == UNCHANGED <<manager, day, positions, traderVars, dbVars, loopVars>>

SignalInit == TraderInit /\ args \in SignalInputs /\ result = Pending
CallAdvancedSignals ==
  /\ result = Pending
  /\ result' = Returned(calculate_advanced_signals(args))
  /\ UNCHANGED args
  /\ EngineIdle
SignalSpec == SignalInit /\ [][CallAdvancedSignals]_vars

(* ------------------- signals of the technical analyzer ------------------ *)
(* src/technical_analysis.py.  Indicator values that are scores or          *)
(* percentages are in units of 1/10000 (RSI 50 is 5000 on a scale of 100 =  *)
(* 10000), prices in units of 0.00001, strategy weights in hundredths.      *)
\* the dataclass TechnicalIndicators with its field defaults
TechnicalIndicators ==
  [rsi |-> 5000, macd |-> 0, macd_signal |-> 0, macd_histogram |-> 0,
   sma_5 |-> 0, sma_10 |-> 0, sma_20 |-> 0, sma_50 |-> 0, sma_100 |-> 0,
   ema_12 |-> 0, ema_26 |-> 0, ema_50 |-> 0,
   stoch_k |-> 5000, stoch_d |-> 5000, williams_r |-> -5000, cci |-> 0,
   atr |-> 0, adx |-> 0, volatility |-> 0, momentum |-> 0, roc |-> 0,
   ichimoku_tenkan |-> 0, ichimoku_kijun |-> 0, ichimoku_senkou_a |-> 0,
   support_level |-> 0, resistance_level |-> 0, trend_strength |-> 0]

Strategies ==
  <<"momentum", "mean_reversion", "breakout", "trend_following", "volatility",
    "support_resistance", "ichimoku", "ml_prediction">>
\* self.strategy_weights as UltraOptimizedTechnicalAnalyzer.__init__ sets it
strategy_weights ==
  [s \in {Strategies[k] : k \in 1..Len(Strategies)} |->
     CASE s = "momentum" -> 15 [] s = "mean_reversion" -> 12 [] s = "breakout" -> 10
       [] s = "trend_following" -> 12 [] s = "volatility" -> 8
       [] s = "support_resistance" -> 10 [] s = "ichimoku" -> 8 [] OTHER -> 15]
RECURSIVE SumUpTo(_, _)
\* f[Strategies[1]] + ... + f[Strategies[k]]
SumUpTo(f, k) == IF k = 0 THEN 0 ELSE SumUpTo(f, k - 1) + f[Strategies[k]]

\* calculate_all_indicators: None (here <<>>) below 50 rows, else the snapshot
calculate_all_indicators(rows, snapshot) ==
  IF rows < 50 THEN <<>> ELSE <<snapshot>>

\* get_ml_prediction on the same rows, when the prediction_cache has no entry
get_ml_prediction(rows, ind) ==
  IF rows < 50 THEN 0
  ELSE LET by_rsi == IF ind.rsi < 3000 THEN 3000
                     ELSE IF ind.rsi > 7000 THEN -3000
                     ELSE ind.rsi - 5000
           by_macd == IF ind.macd > 0 THEN 2000 ELSE -2000
           by_trend == IF ind.trend_strength > 7000 THEN 2000
                       ELSE IF ind.trend_strength < 3000 THEN -2000 ELSE 0
       IN Max(-Unit, Min(Unit, by_rsi + by_macd + by_trend))

\* the eight strategy scores of generate_trading_signal
strategy_scores(ind, current_price, ml_prediction) ==
  [s \in DOMAIN strategy_weights |->
     CASE s = "momentum" ->
            IF ind.momentum > 0 /\ ind.roc > 0 THEN 8000
            ELSE IF ind.momentum < 0 /\ ind.roc < 0 THEN -8000 ELSE 0
       [] s = "mean_reversion" ->
            IF ind.rsi > 7000 THEN -7000 ELSE IF ind.rsi < 3000 THEN 7000 ELSE 0
       [] s = "breakout" ->
            IF current_price * 1000 > ind.resistance_level * 1001 THEN 9000
            ELSE IF current_price * 1000 < ind.support_level * 999 THEN -9000 ELSE 0
       [] s = "trend_following" ->
            IF ind.sma_20 > ind.sma_50 /\ ind.sma_50 > ind.sma_100 /\ ind.ema_12 > ind.ema_26
            THEN 8000
            ELSE IF ind.sma_20 < ind.sma_50 /\ ind.sma_50 < ind.sma_100
                    /\ ind.ema_12 < ind.ema_26
            THEN -8000 ELSE 0
       [] s = "volatility" -> IF ind.volatility * 2 > ind.atr * 3 THEN 5000 ELSE 0
       [] s = "support_resistance" ->
            IF current_price * 1000 < ind.support_level * 1002 THEN 6000
            ELSE IF current_price * 1000 > ind.resistance_level * 998 THEN -6000 ELSE 0
       [] s = "ichimoku" ->
            IF ind.ichimoku_tenkan > ind.ichimoku_kijun /\ current_price > ind.ichimoku_senkou_a
            THEN 7000
            ELSE IF ind.ichimoku_tenkan < ind.ichimoku_kijun
                    /\ current_price < ind.ichimoku_senkou_a
            THEN -7000 ELSE 0
       [] OTHER -> ml_prediction]

\* weighted_signal / total_weight
final_signal(scores, weights) ==
  LET weighted_signal == SumUpTo([s \in DOMAIN weights |-> scores[s] * weights[s]],
                                 Len(Strategies))
      total_weight == SumUpTo(weights, Len(Strategies))
  IN IF total_weight > 0 THEN TruncDiv(weighted_signal, total_weight) ELSE 0

(* generate_trading_signal for an analyzer with these weights, `rows`      *)
(* buffered prices of the instrument and the snapshot its indicator         *)
(* functions compute on them                                                *)
generate_trading_signal(weights, rows, snapshot, current_price) ==
  LET indicators == calculate_all_indicators(rows, snapshot)
  IN IF indicators = <<>>
     THEN [signal |-> "HOLD", confidence |-> 0, strength |-> 0,
           indicators |-> TechnicalIndicators]
     ELSE LET ind == indicators[1]
              final == final_signal(
                         strategy_scores(ind, current_price, get_ml_prediction(rows, ind)),
                         weights)
              confidence == Min(TruncDiv(Abs(final) * 3, 2), Unit)
          IN IF final > 3000
             THEN [signal |-> "BUY", confidence |-> confidence, strength |-> Abs(final),
                   indicators |-> ind]
             ELSE IF final < -3000
             THEN [signal |-> "SELL", confidence |-> confidence, strength |-> Abs(final),
                   indicators |-> ind]
             ELSE [signal |-> "HOLD", confidence |-> 5000, strength |-> Abs(final),
                   indicators |-> ind]

(* One analyzer: it is constructed, then generate_trading_signal is called *)
(* once for an instrument with `rows` buffered prices.                     *)
RowCounts == {5, 49, 50}
CurrentPrices == {98800, 99100, 100000, 100950, 101200}
MomentumPairs == {[momentum |-> 10, roc |-> 10], [momentum |-> 0, roc |-> 0],
                  [momentum |-> -10, roc |-> -10]}
MovingAverages ==
  { [sma_20 |-> 100300, sma_50 |-> 100200, sma_100 |-> 100100,
     ema_12 |-> 100350, ema_26 |-> 100250],
    [sma_20 |-> 100000, sma_50 |-> 100000, sma_100 |-> 100000,
     ema_12 |-> 100000, ema_26 |-> 100000],
    [sma_20 |-> 99700, sma_50 |-> 99800, sma_100 |-> 99900,
     ema_12 |-> 99650, ema_26 |-> 99750] }
VolatilityPairs == {[volatility |-> 30, atr |-> 10], [volatility |-> 10, atr |-> 10]}
IchimokuLines ==
  { [tenkan |-> 100100, kijun |-> 100000, senkou_a |-> 98000],
    [tenkan |-> 100000, kijun |-> 100000, senkou_a |-> 100000],
    [tenkan |-> 100000, kijun |-> 100100, senkou_a |-> 102000] }
\* what the indicator functions can compute on 50 or more rows
Snapshots ==
  { [TechnicalIndicators EXCEPT
       !.momentum = m.momentum, !.roc = m.roc, !.rsi = rsi, !.macd = macd,
       !.trend_strength = ts,
       !.sma_5 = ma.sma_20, !.sma_10 = ma.sma_20, !.sma_20 = ma.sma_20,
       !.sma_50 = ma.sma_50, !.sma_100 = ma.sma_100,
       !.ema_12 = ma.ema_12, !.ema_26 = ma.ema_26, !.ema_50 = ma.sma_50,
       !.volatility = v.volatility, !.atr = v.atr,
       !.ichimoku_tenkan = ich.tenkan, !.ichimoku_kijun = ich.kijun,
       !.ichimoku_senkou_a = ich.senkou_a,
       !.support_level = 99000, !.resistance_level = 101000] :
    m \in MomentumPairs, rsi \in {2500, 5000, 7500}, macd \in {-5, 5},
    ts \in {2000, 8000}, ma \in MovingAverages, v \in VolatilityPairs,
    ich \in IchimokuLines }
AnalyzerInputs ==
  { [analyzer |-> <<>>, rows |-> n, snapshot |-> sn, current_price |-> cp,
     market_regime |-> r] :
    n \in RowCounts, sn \in Snapshots, cp \in CurrentPrices, r \in {"NORMAL", "TRENDING"} }

AnalyzerInit == TraderInit /\ args \in AnalyzerInputs /\ result = Pending
\* UltraOptimizedTechnicalAnalyzer.__init__: nothing is validated
AnalyzerNew ==
  /\ args.analyzer = <<>>
  /\ args' = [args EXCEPT !.analyzer = <<[strategy_weights |-> strategy_weights]>>]
  /\ UNCHANGED result
  /\ EngineIdle
CallGenerateTradingSignal ==
  /\ args.analyzer # <<>> /\ result = Pending
  /\ result' = Returned(generate_trading_signal(args.analyzer[1].strategy_weights,
                                                args.rows, args.snapshot, args.current_price))
  /\ UNCHANGED args
  /\ EngineIdle
AnalyzerNext == AnalyzerNew \/ CallGenerateTradingSignal
AnalyzerSpec == AnalyzerInit /\ [][AnalyzerNext]_vars

(* -------------------------- position sizing -------------------------- *)
(* One call of calculate_optimal_position_size, and the stop distance     *)
(* execute_trade then derives from the volatility of the quote.           *)
SizerInstruments == {"EUR_USD", "USD_CHF"}
SizerBalances == {-1000, 0, 40, 1000, 20000, 600000}
SizerReplies == {<<>>} \cup {<<b>> : b \in SizerBalances}
SizerConfidences == {0, 50, 71, 98}
Volatilities == {0, 22, 100}
SizerInputs ==
  { [instrument |-> i, reply |-> b, confidence |-> c, market_regime |-> r, volatility |-> v] :
    i \in SizerInstruments, b \in SizerReplies, c \in SizerConfidences, r \in Regimes,
    v \in Volatilities }
\* execute_trade: stop_distance = max(volatility * 2, 0.001)
stop_distance(volatility) == Max(volatility * 2, 100)
\* max_units of calculate_optimal_position_size
max_units(balance) == Min(UnitsCap, TruncDiv(balance, 10))

SizerInit == TraderInit /\ args \in SizerInputs /\ result = Pending
CallPositionSize ==
  /\ result = Pending
  /\ result' = Returned(calculate_optimal_position_size(
                          args.instrument, args.reply, args.confidence, args.market_regime))
  /\ UNCHANGED args
  /\ EngineIdle
SizerSpec == SizerInit /\ [][CallPositionSize]_vars

(* ------------------------------ startup ------------------------------ *)
(* UltraOptimizedBotManager.run up to start_components: the environment   *)
(* check, then the construction of the components.                        *)
\* the classes each module of the program defines
module_classes ==
  [bot |-> {"UltraOptimizedTradingBot"},
   trader |-> {"AdvancedTrader"},
   scraper |-> {"EnhancedNewsScraper"},
   database |-> {"Trade", "Position", "PerformanceMetrics", "UltraOptimizedDatabase"},
   technical_analysis |-> {"TechnicalIndicators", "MarketSignal",
                           "UltraOptimizedTechnicalAnalyzer"}]
\* the from ... import ... statements of initialize_components, in order
component_imports ==
  << [module |-> "bot", name |-> "UltraOptimizedTradingBot"],
     [module |-> "trader", name |-> "UltraOptimizedTrader"],
     [module |-> "scraper", name |-> "UltraOptimizedNewsScraper"],
     [module |-> "database", name |-> "UltraOptimizedDatabase"],
     [module |-> "technical_analysis", name |-> "UltraOptimizedTechnicalAnalyzer"] >>
\* the parameters AdvancedTrader.__init__ accepts, and the keywords
\* initialize_components passes to the trader it constructs
trader_parameters == {"api_key", "account_id", "scraper"}
trader_keywords == {"api_key", "account_id", "scraper", "analyzer", "database"}

\* Config._validate: TRUE when no error is collected.  risk_per_trade in
\* thousandths, max_spread in 0.00001, min_confidence in hundredths.
Config_validate(c) ==
  LET placeholders == c.oanda_api_key = "your_oanda_api_key_here"
                      \/ c.oanda_account_id = "your_oanda_account_id_here"
                      \/ c.telegram_bot_token = "your_telegram_bot_token_here"
                      \/ c.telegram_chat_id = "your_telegram_chat_id_here"
  IN /\ ~(c.risk_per_trade <= 0 \/ c.risk_per_trade > 100)
     /\ ~(c.max_spread <= 0)
     /\ ~(c.min_confidence < 50 \/ c.min_confidence > 100)
     /\ ~placeholders =>
          /\ c.oanda_api_key # "" /\ c.oanda_account_id # ""
          /\ c.telegram_bot_token # "" /\ c.telegram_chat_id # ""
\* sys.version_info < (3, 8)
version_below_3_8(v) == v[1] < 3 \/ (v[1] = 3 /\ v[2] < 8)
check_environment(a) ==
  IF ~Config_validate(a.config) THEN FALSE
  ELSE IF version_below_3_8(a.version_info) THEN FALSE
  ELSE TRUE
\* initialize_components: any exception of the body makes it return False
initialize_components ==
  /\ \A k \in DOMAIN component_imports :
       component_imports[k].name \in module_classes[component_imports[k].module]
  /\ trader_keywords \subseteq trader_parameters
\* UltraOptimizedBotManager.run: where it stops, or that it goes on to start
\* the components
manager_run(a) ==
  IF ~check_environment(a) THEN [exit |-> 1, at |-> "check_environment"]
  ELSE IF ~initialize_components THEN [exit |-> 1, at |-> "initialize_components"]
  ELSE [exit |-> 0, at |-> "start_components"]

ConfigRisks == {0, 15, 100, 101}
ConfigSpreads == {0, 30}
ConfigConfidences == {49, 50, 75, 101}
ApiKeys == {"your_oanda_api_key_here", "", "key"}
ChatIds == {"your_telegram_chat_id_here", "chat"}
Configs ==
  [risk_per_trade : ConfigRisks, max_spread : ConfigSpreads,
   min_confidence : ConfigConfidences, oanda_api_key : ApiKeys,
   oanda_account_id : {"account"}, telegram_bot_token : {"token"},
   telegram_chat_id : ChatIds]
Versions == {<<3, 7>>, <<3, 8>>}
StartupInputs == [config : Configs, version_info : Versions]

StartupInit == TraderInit /\ args \in StartupInputs /\ result = Pending
CallManagerRun ==
  /\ result = Pending
  /\ result' = Returned(manager_run(args))
  /\ UNCHANGED args
  /\ EngineIdle
StartupSpec == StartupInit /\ [][CallManagerRun]_vars

(* --------------------------------- RSI --------------------------------- *)
(* calculate_rsi, read at its last entry (.iloc[-1]) as its callers do.    *)
(* Prices in 0.00001; the index in hundredths of a point.  The weights of  *)
(* the default period over fifteen samples exceed 32-bit integers, so the  *)
(* calls with enough samples pass a period of 2 or 3.                      *)
DefaultPeriod == 14
\* delta = prices.diff(); delta.where(delta > 0, 0); -delta.where(delta < 0, 0)
\* (the first difference is NaN, which both where() calls replace by 0)
gain_at(prices, j) ==
  IF j = 1 THEN 0 ELSE Max(prices[j] - prices[j - 1], 0)
loss_at(prices, j) ==
  IF j = 1 THEN 0 ELSE Max(prices[j - 1] - prices[j], 0)
RECURSIVE Power(_, _)
Power(b, e) == IF e = 0 THEN 1 ELSE b * Power(b, e - 1)
\* ewm(span=period).mean() at the last entry, times the sum of the weights:
\* entry j of n has weight ((period - 1) / (period + 1)) ^ (n - j), here
\* multiplied by (period + 1) ^ (n - 1)
ewm_weight(period, n, j) == Power(period - 1, n - j) * Power(period + 1, j - 1)
RECURSIVE ewm_sum(_, _, _, _)
ewm_sum(x, period, n, j) ==
  IF j = 0 THEN 0 ELSE ewm_sum(x, period, n, j - 1) + ewm_weight(period, n, j) * x[j]
average_gain(prices, period) ==
  ewm_sum([j \in 1..Len(prices) |-> gain_at(prices, j)], period, Len(prices), Len(prices))
average_loss(prices, period) ==
  ewm_sum([j \in 1..Len(prices) |-> loss_at(prices, j)], period, Len(prices), Len(prices))
\* a float: not-a-number, or a value
NaN == [nan |-> TRUE, value |-> 0]
Float(v) == [nan |-> FALSE, value |-> v]
calculate_rsi(prices, period) ==
  IF Len(prices) < period + 1 THEN Float(5000)
  ELSE LET gain == average_gain(prices, period)
           loss == average_loss(prices, period)
       IN \* rs = gain / loss; rsi = 100 - (100 / (1 + rs))
          IF loss = 0 THEN IF gain = 0 THEN NaN    \* 0 / 0
                           ELSE Float(10000)       \* rs is infinite
          ELSE Float(10000 - TruncDiv(10000 * loss, loss + gain))

MaxSeries == 5
RsiPrices == {99990, 100000, 100010}
RECURSIVE SeriesOf(_, _)
SeriesOf(S, n) ==
  IF n = 0 THEN {<<>>} ELSE {Append(s, x) : s \in SeriesOf(S, n - 1), x \in S}
RsiSeries == UNION {SeriesOf(RsiPrices, n) : n \in 1..MaxSeries}
RsiPeriods == {2, 3, DefaultPeriod}
RsiInputs == [prices : RsiSeries, period : RsiPeriods]

RsiInit == TraderInit /\ args \in RsiInputs /\ result = Pending
CallCalculateRsi ==
  /\ result = Pending
  /\ result' = Returned(calculate_rsi(args.prices, args.period))
  /\ UNCHANGED args
  /\ EngineIdle
RsiSpec == RsiInit /\ [][CallCalculateRsi]_vars

(* ----------------------------- price series ---------------------------- *)
(* The price history of the trader (a deque per instrument) and of the     *)
(* analyzer (a list per instrument), under appends.  args holds the object *)
(* whose history is appended to, its history, and every sample appended so *)
(* far; the n-th sample of an instrument has its first mid plus n, so that   *)
(* any two samples differ.                                                 *)
PriceHistoryMaxLen == 500
max_history_length == 1000
BaseMid == 100000
ExtraAppends == 3
MaxOtherAppends == 2
SeriesInstruments == {"EUR_USD", "GBP_USD"}
SeriesObjects == {"trader", "analyzer"}
\* the capacity of the object's history
capacity(object) == IF object = "trader" THEN PriceHistoryMaxLen ELSE max_history_length
\* get_enhanced_prices: self.price_history[instrument].append(mid)
store_price(history, mid) == DequeAppend(history, mid, PriceHistoryMaxLen)
\* an analyzer that keeps the oldest entries when its history is full
add_price_data_KeepOldest(history, enhanced_data) ==
  LET h == Append(history, enhanced_data)
  IN IF Len(h) > max_history_length THEN SubSeq(h, 1, max_history_length) ELSE h
\* add_price_data: append, then keep the last max_history_length entries
add_price_data(history, enhanced_data) ==
  LET h == Append(history, enhanced_data)
  IN IF Len(h) > max_history_length
     THEN SubSeq(h, Len(h) - max_history_length + 1, Len(h))
     ELSE h
\* the next quote of an instrument: its first mid plus the number of its
\* samples appended so far
next_mid(i) ==
  (IF i = "EUR_USD" THEN BaseMid ELSE BaseMid + 30000) + Len(args.appended[i]) + 1
\* appends to EUR_USD go past the capacity; GBP_USD takes a few
MayAppend(i) ==
  Len(args.appended[i]) <
    (IF i = "EUR_USD" THEN capacity(args.object) + ExtraAppends ELSE MaxOtherAppends)

SeriesInit ==
  /\ TraderInit
  /\ args \in [object : SeriesObjects,
               price_history : {[i \in SeriesInstruments |-> <<>>]},
               appended : {[i \in SeriesInstruments |-> <<>>]}]
  /\ result = Pending
StorePrice(i) ==
  /\ args.object = "trader" /\ MayAppend(i)
  /\ LET mid == next_mid(i)
     IN args' = [args EXCEPT !.price_history[i] = store_price(@, mid),
                             !.appended[i] = Append(@, mid)]
  /\ UNCHANGED result
  /\ EngineIdle
AddPriceData(i) ==
  /\ args.object = "analyzer" /\ MayAppend(i)
  /\ LET mid == next_mid(i)
     IN args' = [args EXCEPT !.price_history[i] = add_price_data(@, mid),
                             !.appended[i] = Append(@, mid)]
  /\ UNCHANGED result
  /\ EngineIdle
SeriesNext ==
  \E i \in SeriesInstruments : StorePrice(i) \/ AddPriceData(i)
SeriesSpec == SeriesInit /\ [][SeriesNext]_vars

(* ------------------------- performance tracking ------------------------ *)
(* A sequence of execute_trade calls, each filled (with an expected profit *)
(* that is positive or zero) or not filled.  args counts the calls, result *)
(* is what the last call returned.                                         *)
MaxCalls == 13
ExpectedProfits == {0, 1}
TrackingIdle == UNCHANGED <<manager, day, positions, running, dbVars, loopVars>>
TrackingInit == TraderInit /\ args = [calls |-> 0] /\ result = Pending
\* execute_trade, 'orderFillTransaction' in response
ExecuteTradeFilled ==
  /\ args.calls < MaxCalls
  /\ \E ep \in ExpectedProfits : TradeRecorded(ep)
  /\ args' = [calls |-> args.calls + 1]
  /\ result' = Returned(TRUE)
  /\ TrackingIdle
\* execute_trade, order not filled or the request raised
ExecuteTradeRejected ==
  /\ args.calls < MaxCalls
  /\ args' = [calls |-> args.calls + 1]
  /\ result' = Returned(FALSE)
  /\ UNCHANGED <<trade_history, trade_count, perfVars>>
  /\ TrackingIdle
TrackingNext == ExecuteTradeFilled \/ ExecuteTradeRejected
TrackingSpec == TrackingInit /\ [][TrackingNext]_vars

(* --------------------------- prediction cache -------------------------- *)
(* Calls of get_ml_prediction on one analyzer.  args holds the analyzer's  *)
(* prediction_cache, the hour of the clock, for each instrument the rows   *)
(* buffered (49, or 50 for fifty and more) and the features its series     *)
(* gives at present, and the instrument of the last call; result is what   *)
(* the last call returned.                                                 *)
MaxHour == 1
MaxPredictions == 3
PredictionInstruments == {"EUR_USD", "GBP_USD"}
\* rsi, macd and trend_strength of an oversold rising, an overbought
\* falling and a neutral series
MlFeatures ==
  { [rsi |-> 2000, macd |-> 1, trend_strength |-> 8000],
    [rsi |-> 8000, macd |-> -1, trend_strength |-> 2000],
    [rsi |-> 5000, macd |-> 1, trend_strength |-> 5000] }
\* cache_key = f"{instrument}_{datetime.now().strftime('%Y%m%d_%H')}"
cache_key(inst, hour) == <<inst, hour>>
\* get_ml_prediction with the analyzer's prediction_cache: the value
\* returned and the cache afterwards
get_ml_prediction_with(prediction_cache, key, rows, ind) ==
  IF key \in DOMAIN prediction_cache
  THEN [prediction |-> prediction_cache[key], prediction_cache |-> prediction_cache]
  ELSE IF rows < 50
  THEN [prediction |-> 0, prediction_cache |-> prediction_cache]
  ELSE LET prediction == get_ml_prediction(rows, ind)
       IN [prediction |-> prediction,
           prediction_cache |-> (key :> prediction) @@ prediction_cache]

PredictionInit ==
  /\ TraderInit
  /\ args \in [prediction_cache : {<<>>}, hour : {0}, calls : {0},
               rows : {[i \in PredictionInstruments |-> 49]},
               indicators : [PredictionInstruments -> MlFeatures],
               call : {<<>>}]
  /\ result = Pending
\* add_price_data: one more row for the instrument, and the features of
\* the longer series
AddPrices(inst) ==
  /\ \E ind \in MlFeatures :
       args' = [args EXCEPT !.rows[inst] = Min(@ + 1, 50), !.indicators[inst] = ind]
  /\ UNCHANGED result
  /\ EngineIdle
CallGetMlPrediction(inst) ==
  /\ args.calls < MaxPredictions
  /\ LET r == get_ml_prediction_with(args.prediction_cache, cache_key(inst, args.hour),
                                     args.rows[inst], args.indicators[inst])
     IN /\ result' = Returned(r.prediction)
        /\ args' = [args EXCEPT !.prediction_cache = r.prediction_cache,
                                !.calls = @ + 1,
                                !.call = <<inst>>]
  /\ EngineIdle
\* the clock reaches the next hour
HourPasses ==
  /\ args.hour < MaxHour
  /\ args' = [args EXCEPT !.hour = @ + 1]
  /\ UNCHANGED result
  /\ EngineIdle
PredictionNext ==
  \/ \E inst \in PredictionInstruments : AddPrices(inst)
  \/ \E inst \in PredictionInstruments : CallGetMlPrediction(inst)
  \/ HourPasses
PredictionSpec == PredictionInit /\ [][PredictionNext]_vars

(* ---------------------------- market regime ---------------------------- *)
(* One call of analyze_market_regime on a balance_history.  Balances in    *)
(* account currency, relative changes in millionths.                       *)
RegimeWindow == 10
MaxBalances == 11
RegimeBalances == {10000, 10600}
BalanceHistories == UNION {SeriesOf(RegimeBalances, n) : n \in (RegimeWindow - 1)..MaxBalances}
\* recent_balances = list(self.balance_history)[-10:]
recent_balances(balance_history) ==
  SubSeq(balance_history, Max(Len(balance_history) - RegimeWindow, 0) + 1,
         Len(balance_history))
\* abs(recent_balances[i] - recent_balances[i-1]) / recent_balances[i-1]
balance_change(recent, i) == TruncDiv(Abs(recent[i] - recent[i - 1]) * 1000000, recent[i - 1])
RECURSIVE SumChanges(_, _)
SumChanges(recent, i) ==
  IF i < 2 THEN 0 ELSE SumChanges(recent, i - 1) + balance_change(recent, i)
analyze_market_regime(balance_history) ==
  IF Len(balance_history) < RegimeWindow THEN "NORMAL"
  ELSE LET recent == recent_balances(balance_history)
           changes == Len(recent) - 1
       IN IF \E i \in 1..changes : recent[i] = 0 THEN "NORMAL"   \* ZeroDivisionError
          \* avg_volatility = np.mean(balance_changes), compared with 0.02 and 0.005
          ELSE IF SumChanges(recent, Len(recent)) > 20000 * changes THEN "VOLATILE"
          ELSE IF SumChanges(recent, Len(recent)) < 5000 * changes THEN "TRENDING"
          ELSE "NORMAL"

RegimeInit ==
  /\ TraderInit
  /\ args \in [balance_history : BalanceHistories]
  /\ result = Pending
CallAnalyzeMarketRegime ==
  /\ result = Pending
  /\ result' = Returned(analyze_market_regime(args.balance_history))
  /\ UNCHANGED args
  /\ EngineIdle
RegimeSpec == RegimeInit /\ [][CallAnalyzeMarketRegime]_vars

(* ---------------------------- open positions --------------------------- *)
(* The cycles of one trading loop over all seven instruments, reduced to   *)
(* what decides the number of open positions: the exposure read at the     *)
(* head of the cycle, the max_positions test, and for each instrument in   *)
(* turn whether an order is filled.  args holds the loop's position (idle, *)
(* scanning, or asleep after the max_positions test), the exposure of the  *)
(* cycle and the index of the next instrument.                             *)
AllInstruments == {InstrumentList[k] : k \in 1..Len(InstrumentList)}
PositionsInit ==
  /\ TraderInit
  /\ args = [at |-> "idle", exposure |-> {}, next |-> 0]
  /\ result = Pending
PositionsIdle == UNCHANGED <<manager, day, traderVars, dbVars, loopVars, result>>
\* exposure = await self.get_current_exposure(); active_positions >= max_positions
CycleHead ==
  /\ args.at = "idle"
  /\ \E ok \in BOOLEAN :
       LET exposure_now == IF ok THEN positions ELSE {}
       IN IF Cardinality(exposure_now) >= max_positions
          THEN args' = [args EXCEPT !.at = "sleep_maxpos"]
          ELSE args' = [at |-> "scan", exposure |-> exposure_now, next |-> 1]
  /\ UNCHANGED positions
  /\ PositionsIdle
\* asyncio.sleep(60) ends; continue
MaxPositionsWake ==
  /\ args.at = "sleep_maxpos"
  /\ args' = [args EXCEPT !.at = "idle"]
  /\ UNCHANGED positions
  /\ PositionsIdle
\* the position of the loop after the instrument with index k
AfterInstrument(k) ==
  IF k = Len(InstrumentList) THEN [args EXCEPT !.at = "idle", !.next = 0]
  ELSE [args EXCEPT !.next = k + 1]
\* one pass of the for loop without a fill: the instrument is in the
\* exposure, its spread is wide, the signal is HOLD or weak, the size is 0,
\* or the order is not filled
NoFill ==
  /\ args.at = "scan"
  /\ args' = AfterInstrument(args.next)
  /\ UNCHANGED positions
  /\ PositionsIdle
\* one pass of the for loop in which execute_trade has its order filled
Fill ==
  /\ args.at = "scan"
  /\ InstrumentList[args.next] \notin args.exposure
  /\ \/ positions' = positions \cup {InstrumentList[args.next]}
     \/ /\ InstrumentList[args.next] \in positions
        /\ positions' = positions \ {InstrumentList[args.next]}
  /\ args' = AfterInstrument(args.next)
  /\ PositionsIdle
\* the broker closes a position (stop loss or take profit)
PositionClosed(i) ==
  /\ i \in positions
  /\ positions' = positions \ {i}
  /\ UNCHANGED args
  /\ PositionsIdle
PositionsNext ==
  \/ CycleHead \/ MaxPositionsWake \/ NoFill \/ Fill
  \/ \E i \in AllInstruments : PositionClosed(i)
PositionsSpec == PositionsInit /\ [][PositionsNext]_vars

(* ---------------------------- status queries --------------------------- *)
(* The balance_history of the trader under the balance requests of the     *)
(* trading loop and of status queries.  args holds the balance_history,    *)
(* the balance of the account at the broker, and who appended last.        *)
BalanceHistoryMaxLen == 100
\* get_balance: the balance is appended to balance_history
get_balance(balance_history, balance) ==
  DequeAppend(balance_history, balance, BalanceHistoryMaxLen)
\* the regime the next cycle computes: check_daily_limits requests the
\* balance, then analyze_market_regime reads balance_history
next_cycle_regime(balance_history, balance) ==
  analyze_market_regime(get_balance(balance_history, balance))

StatusInit ==
  /\ TraderInit
  /\ args \in [balance_history : {<<>>}, balance : RegimeBalances, last : {"none"}]
  /\ result = Pending
\* the account balance changes at the broker
BalanceMoves ==
  /\ \E b \in RegimeBalances \ {args.balance} : args' = [args EXCEPT !.balance = b]
  /\ UNCHANGED result
  /\ EngineIdle
\* a balance request of the trading loop (check_daily_limits, the sizer)
LoopGetBalance ==
  /\ Len(args.balance_history) < MaxBalances
  /\ args' = [args EXCEPT !.balance_history = get_balance(@, args.balance),
                          !.last = "loop"]
  /\ UNCHANGED result
  /\ EngineIdle
\* get_status / get_detailed_status: balance = await self.get_balance(), the
\* exposure, and a dictionary built from fields it only reads
StatusQuery ==
  /\ Len(args.balance_history) < MaxBalances
  /\ \/ args' = [args EXCEPT !.balance_history = get_balance(@, args.balance),
                             !.last = "status"]
     \/ args' = [args EXCEPT !.last = "status"]     \* the balance request failed
  /\ UNCHANGED result
  /\ EngineIdle
StatusNext == BalanceMoves \/ LoopGetBalance \/ StatusQuery
StatusSpec == StatusInit /\ [][StatusNext]_vars

(* ------------------------------ claims --------------------------------- *)

(* C1: once the trades executed on the current day have reached the daily  *)
(* trade-count cap, no order is placed: whenever an order is being sent,   *)
(* today's trades are below the cap.                                       *)
C1_Claim == \A l \in Loops : pc[l] = "order" => Len(today_trades) < DailyTradeCap

(* C2: when an order is sent, the daily risk used (risk_per_trade x        *)
(* balance per trade of today) plus the new trade's risk is below           *)
(* max_daily_risk x balance, and no trade was executed since the daily     *)
(* check this order rests on.  The balance that sized the order is         *)
(* positive, so both sides are divided by it.                              *)
C2_Claim ==
  \A l \in Loops :
    pc[l] = "order" =>
      /\ (Len(today_trades) + 1) * risk_per_trade < max_daily_risk
      /\ ~traded[l]

(* C3: at most one trading loop is active at any time. *)
ActiveLoops == {l \in Loops : pc[l] \notin {"none", "start"}}
C3_Claim == Cardinality(ActiveLoops) <= 1

(* C4: a quote that cannot be processed does not keep the instruments with *)
(* a valid quote from being evaluated in that cycle: when a cycle is given *)
(* up for lack of price data, no instrument had a valid quote.             *)
C4_Claim ==
  \A l \in Loops :
    pc[l] = "no_prices" =>
      \A i \in Instruments : prices_reply[l][i] \notin {"tight", "wide"}

(* C5: after a cycle that failed (an exception in the while body, or no    *)
(* price data), a later cycle starts, unless a stop or shutdown was        *)
(* requested.                                                              *)
C5_Theorem ==
  \A l \in Loops :
    (pc[l] \in {"sleep_error", "sleep_noprices"})
      ~> (pc[l] = "cycle" \/ ~running \/ manager = "exited")
C5_Witness ==
  \E l \in Loops : pc[l] = "sleep_error" /\ running /\ manager = "running"

(* C6: when the broker does not fill an order or the order call fails,     *)
(* trade history, trade count, today's trades, streaks and profit factor   *)
(* stay as they are, and the loop goes on to its sleep and the rest of     *)
(* price_data.                                                             *)
BudgetAndPerformance == <<trade_history, trade_count, perfVars, day>>
C6_Theorem ==
  [][\A l \in Loops :
       /\ (pc[l] = "order" /\ pc'[l] \notin {"order", "filled"}) =>
            /\ pc'[l] = "not_filled"
            /\ UNCHANGED BudgetAndPerformance
            /\ price_data'[l] = price_data[l]
       /\ (pc[l] = "not_filled" /\ pc'[l] # "not_filled") =>
            /\ pc'[l] = "sleep_inst"
            /\ UNCHANGED BudgetAndPerformance
            /\ price_data'[l] = price_data[l]
       /\ (pc[l] = "sleep_inst" /\ pc'[l] # "sleep_inst") => pc'[l] = "for"]_vars
C6_Witness == \E l \in Loops : pc[l] = "not_filled" /\ price_data[l] # <<>>

(* C7: every filled order has had its TradeRecord passed to save_trade by  *)
(* the time the loop moves on from that instrument.                        *)
C7_Claim == (\A l \in Loops : pc[l] # "filled") => db_trades = trade_count

(* C8: a shutdown or stop request lets the instrument in flight finish (no *)
(* order is left filled without its record), and while stopped no further  *)
(* instrument is evaluated.                                                *)
C8_Claim ==
  [][/\ manager' = "exited" => \A l \in Loops : pc'[l] # "filled"
     /\ \A l \in Loops :
          (~running /\ pc[l] = "for") => pc'[l] \in {"for", "sleep_cycle", "sleep_error"}]_vars

(* C9: when the process has exited after a shutdown signal, every          *)
(* TradeRecord and the PerformanceState they produced have been handed to  *)
(* the persistence boundary.                                               *)
C9_Claim ==
  manager = "exited" =>
    /\ db_trades = trade_count
    /\ trade_count > 0 => db_performance > 0

(* C10: no order is sent for an instrument that has an open position at    *)
(* the broker.                                                             *)
C10_Claim == \A l \in Loops : pc[l] = "order" => instrument[l] \notin positions

(* C11: no order is placed for an instrument in a cycle in which its       *)
(* quoted spread is greater than the instrument's max_spread: whenever a   *)
(* loop passes to the order call, the item it was looking at is the        *)
(* ordered instrument and its spread is not above max_spread.              *)
C11_Theorem ==
  [][\A l \in Loops :
       (pc[l] # "order" /\ pc'[l] = "order") =>
          /\ price_data[l] # <<>>
          /\ Head(price_data[l]).instrument = instrument'[l]
          /\ Head(price_data[l]).spread # "wide"]_vars
(* a running loop stands at an item with a wide spread that the exposure   *)
(* snapshot does not exclude, after an order of the same scan              *)
C11_Witness ==
  \E l \in Loops :
    /\ pc[l] = "for" /\ running /\ price_data[l] # <<>>
    /\ Head(price_data[l]).spread = "wide"
    /\ Head(price_data[l]).instrument \notin exposure[l]
    /\ traded[l]

(* C12: whenever an instrument has fewer than 50 buffered price samples,   *)
(* the fused action for it is HOLD, whatever the sentiment, the sentiment  *)
(* trend, the regime and the streaks.                                      *)
MinWindow == 50
C12_Claim == (result # Pending /\ args.samples < MinWindow) => result[1].signal = "HOLD"

(* C13: for every price series shorter than 50 samples the indicator       *)
(* snapshot equals the neutral defaults: RSI 50, stochastic %K = %D = 50,  *)
(* Williams %R -50, MACD and histogram 0, every moving average equal to    *)
(* the last price, ATR, ADX, CCI, momentum and ROC 0, support and          *)
(* resistance equal to the last price.                                     *)
C13_Claim ==
  (result # Pending /\ args.rows < MinWindow) =>
    LET ind == result[1].indicators
        last == args.current_price
    IN /\ ind.rsi = 5000 /\ ind.stoch_k = 5000 /\ ind.stoch_d = 5000
       /\ ind.williams_r = -5000
       /\ ind.macd = 0 /\ ind.macd_histogram = 0
       /\ \A ma \in {ind.sma_5, ind.sma_10, ind.sma_20, ind.sma_50, ind.sma_100,
                     ind.ema_12, ind.ema_26, ind.ema_50} : ma = last
       /\ ind.atr = 0 /\ ind.adx = 0 /\ ind.cci = 0 /\ ind.momentum = 0 /\ ind.roc = 0
       /\ ind.support_level = last /\ ind.resistance_level = last

(* C14: the fused action is HOLD whenever the absolute score is below the  *)
(* threshold of the regime in force (0.45, or 0.35 in TRENDING/BREAKOUT,   *)
(* times 1.2 if confidence < 0.6, times 0.8 if confidence > 0.8); stated   *)
(* for the signal generate_trading_signal emits.                           *)
C14_Claim ==
  (result # Pending /\ args.rows >= MinWindow) =>
    (result[1].strength < buy_threshold(args.market_regime, result[1].confidence)
       => result[1].signal = "HOLD")

(* C14 on the trader's own path, calculate_advanced_signals *)
C14_TraderPath ==
  result # Pending =>
    (Abs(result[1].total_score) < buy_threshold(args.market_regime, result[1].confidence)
       => result[1].signal = "HOLD")

(* C15: the confidence of a BUY or SELL equals min(|weighted sum| x 1.5,   *)
(* 1) of the raw weighted sum of the strategy scores, computed before any  *)
(* adjustment: evaluating the same scores under another regime, other      *)
(* streaks or other correlated exposure gives the same confidence.         *)
C15_Claim ==
  (result # Pending /\ result[1].signal # "HOLD") =>
    LET raw == weighted_sum(raw_tech_score(args), args)
    IN /\ result[1].confidence = Min(TruncDiv(Abs(raw) * 3, 2), Unit)
       /\ \A r \in Regimes, k \in Streaks, e \in {{}, args.current_exposure} :
            LET other == calculate_advanced_signals(
                           [args EXCEPT !.market_regime = r,
                                        !.win_streak = k.win_streak,
                                        !.loss_streak = k.loss_streak,
                                        !.consecutive_wins = k.consecutive_wins,
                                        !.current_exposure = e])
            IN other.signal # "HOLD" => other.confidence = result[1].confidence

(* C16: the correlation factor 1 - min(0.5, 0.15 x count) does not grow    *)
(* with the count of correlated instruments that hold exposure, stays at   *)
(* the cap 0.5 once it is reached, and never makes the magnitude of the    *)
(* score larger than it was before the factor was applied.                 *)
CorrelatedCount(a, e) == Cardinality(correlation_pairs(a.instrument) \cap e)
C16_Theorem ==
  result # Pending =>
    LET pen == result[1].correlation_penalty
        before == weighted_sum(tech_score(args), args)
        after == Scaled(before, Unit - pen)
    IN /\ 0 <= pen /\ pen <= PenaltyCap
       /\ Abs(after) <= Abs(before)
       /\ \A e \in Exposures :
            CorrelatedCount(args, e) >= CorrelatedCount(args, args.current_exposure)
              => Unit - calculate_correlation_penalty(args.instrument, e) <= Unit - pen
       /\ \A n \in 0..MaxCorrelated :
            /\ Unit - penalty_for(n + 1) <= Unit - penalty_for(n)
            /\ penalty_for(n) <= PenaltyCap
            /\ (penalty_for(n) = PenaltyCap => penalty_for(n + 1) = PenaltyCap)
\* three correlated instruments hold exposure and the score is not zero
C16_Witness ==
  /\ result # Pending
  /\ CorrelatedCount(args, args.current_exposure) = 3
  /\ result[1].correlation_penalty = 3 * PenaltyStep
  /\ result[1].total_score # 0
  /\ Abs(result[1].total_score) < Abs(weighted_sum(tech_score(args), args))

(* C17: the position sizer never returns a negative number of units, and   *)
(* returns 0 whenever the balance is unavailable or the stop distance of   *)
(* the order is 0.                                                         *)
C17_Theorem ==
  result # Pending =>
    /\ result[1] >= 0
    /\ args.reply = <<>> => result[1] = 0
    /\ stop_distance(args.volatility) = 0 => result[1] = 0
\* the balance request failed, or the balance is negative, and the call returned
C17_Witness ==
  /\ result # Pending
  /\ args.reply = <<>> \/ (args.reply[1] < 0 /\ args.confidence > 0)
  /\ result[1] = 0

(* C18: every nonzero size returned by the position sizer lies between     *)
(* min_units and max_units = min(50000, int(balance x 0.1)).               *)
C18_Claim ==
  (result # Pending /\ result[1] # 0) =>
    /\ MinUnits <= result[1]
    /\ result[1] <= max_units(args.reply[1])

(* C19: an analyzer cannot be constructed with strategy weights that do    *)
(* not sum to 1, so the weights of every constructed analyzer sum to 1     *)
(* (100 hundredths).                                                       *)
C19_Claim ==
  args.analyzer # <<>> =>
    SumUpTo(args.analyzer[1].strategy_weights, Len(Strategies)) = 100

(* C20: with a valid configuration (and a supported interpreter) the       *)
(* manager's run always goes on to start the components: only an invalid   *)
(* configuration stops the startup.                                        *)
C20_Claim ==
  (/\ result # Pending
   /\ Config_validate(args.config)
   /\ ~version_below_3_8(args.version_info))
    => result[1].at = "start_components"

(* C21: the RSI is a number in [0, 100] for every price series, and is     *)
(* exactly 100 when the average loss is 0 and the average gain positive.   *)
C21_Claim ==
  result # Pending =>
    /\ ~result[1].nan
    /\ 0 <= result[1].value /\ result[1].value <= 10000
    /\ (/\ Len(args.prices) >= args.period + 1
        /\ average_loss(args.prices, args.period) = 0
        /\ average_gain(args.prices, args.period) > 0) => result[1].value = 10000

(* C22: after any sequence of appends the price series of an instrument    *)
(* holds at most its capacity of samples, and these are, in the order of   *)
(* insertion, the most recent samples appended for that instrument.        *)
C22_Theorem ==
  \A i \in SeriesInstruments :
    LET h == args.price_history[i]
        a == args.appended[i]
        kept == Min(Len(a), capacity(args.object))
    IN /\ Len(h) <= capacity(args.object)
       /\ h = SubSeq(a, Len(a) - kept + 1, Len(a))
\* the trader's deque has overflowed twice while the other series is short
C22_Witness ==
  /\ args.object = "trader"
  /\ Len(args.appended["EUR_USD"]) = PriceHistoryMaxLen + 2
  /\ Len(args.price_history["EUR_USD"]) = PriceHistoryMaxLen
  /\ Head(args.price_history["EUR_USD"]) = args.appended["EUR_USD"][3]
  /\ Len(args.price_history["GBP_USD"]) = 1

(* C23: in every state profit_factor (in hundredths) equals                *)
(* clamp(1 + 0.1 x win_streak - 0.05 x loss_streak, 0.5, 2.0), and so lies *)
(* in [0.5, 2.0], after any sequence of filled and rejected trades.        *)
C23_Theorem ==
  /\ profit_factor = Max(50, Min(200, 100 + 10 * win_streak - 5 * loss_streak))
  /\ 50 <= profit_factor /\ profit_factor <= 200
\* eleven losing windows in a row, then a rejected order: the lower clamp binds
C23_Witness ==
  /\ loss_streak = 11 /\ win_streak = 0
  /\ profit_factor = 50
  /\ result = Returned(FALSE)

(* C24: win_streak, loss_streak and profit_factor change only in a step in *)
(* which a position is closed (the outcome of a trade becomes known); the  *)
(* step that records an order fill leaves them unchanged.                  *)
C24_Claim ==
  [][<<win_streak, loss_streak, profit_factor>>' # <<win_streak, loss_streak, profit_factor>>
       => /\ positions' # positions /\ positions' \subseteq positions
          /\ \A l \in Loops : pc[l] # "filled"]_vars

C26_Claim ==
  [][args'.calls # args.calls =>
       LET inst == args'.call[1]
       IN result' = Returned(IF args.rows[inst] < 50 THEN 0
                             ELSE get_ml_prediction(args.rows[inst], args.indicators[inst]))]_vars

(* C27: on a window of at least 10 samples the regime is CRISIS when the   *)
(* largest relative change exceeds 5%, otherwise VOLATILE when the mean    *)
(* relative change exceeds 2%, otherwise TRENDING when the mean is below   *)
(* 0.5%, otherwise NORMAL.                                                 *)
C27_Claim ==
  (result # Pending /\ Len(args.balance_history) >= RegimeWindow) =>
    LET recent == recent_balances(args.balance_history)
        n == Len(recent)
        sum == SumChanges(recent, n)
    IN result[1] =
         (IF \E i \in 2..n : balance_change(recent, i) > 50000 THEN "CRISIS"
          ELSE IF sum > 20000 * (n - 1) THEN "VOLATILE"
          ELSE IF sum < 5000 * (n - 1) THEN "TRENDING"
          ELSE "NORMAL")

(* C28: the number of instruments with an open position never exceeds     *)
(* max_positions.                                                          *)
C28_Claim == Cardinality(positions) <= max_positions

(* C29: a status query leaves unchanged the market regime the next cycle   *)
(* computes, whatever the balance of the account is then.                  *)
C29_Claim ==
  [][args'.last = "status" =>
       \A b \in RegimeBalances :
         next_cycle_regime(args'.balance_history, b)
           = next_cycle_regime(args.balance_history, b)]_vars

(* C30: the running flag is true only while a trading loop is active or    *)
(* about to start: once every run() has returned, running is false.        *)
C30_Claim ==
  running => \E l \in Loops : pc[l] # "none"

====
